---------------------------- MODULE Spec2Model ----------------------------
(***************************************************************************)
(* Paper-trading ledger of src/app.py: the session state (cash, watchlist, *)
(* portfolio, trade log, dividend dates, valuation samples), the handlers  *)
(* that change it, and the tail of every script run (dividend accrual and  *)
(* valuation sample).                                                      *)
(*                                                                         *)
(* Money.  Prices are whole cents (av_quote rounds to 2 decimals).  Cash   *)
(* is counted in units of 1/252 cent, so that the daily dividend           *)
(* price * yield / 252 * shares is a whole number of units for the whole   *)
(* yields used here.  The arithmetic is the exact arithmetic of the        *)
(* source's expressions; binary floating-point error is not modelled.      *)
(***************************************************************************)
EXTENDS Integers, Sequences, FiniteSets, TLC

\* ------------------------------------------------------------------ bounds
MaxCycles == 3
MaxDay == 2

\* --------------------------------------------------------------- constants
StartCash == 10000
DivDays == 252

Symbols == {"AAA", "BBB"}
\* Python's None, and a value that is present
None == <<>>
Some(v) == <<v>>

\* Quotes of the provider in thousandths of a dollar (mills), the number in
\* the "05. price" field.  No value is an exact tie between two cents.
RawQuotes == {-200000, 4, 199996, 250000}
\* What the provider holds for a symbol: a quote, or None for every way
\* av_quote returns None (network error, API notice, no or unparsable price).
Quotes == {Some(q) : q \in RawQuotes} \cup {None}
\* The second symbol is there for what a trade leaves alone: its quote is
\* one price or unavailable.
QuotesOf(s) == IF s = "AAA" THEN Quotes ELSE {None, Some(250000)}
\* DividendYield values of the overview
Yields == {0, 1}
\* Inputs of the handlers, in cents.
AddAmounts == {0, 100000}
BuyAmounts == {-10000, 0, 45000, 1000000}
\* cash_amount of buy_by_cash: an amount, or None
SpendInputs == {Some(a) : a \in BuyAmounts} \cup {None}

VARIABLES cash, watchlist, portfolio, trade_history, last_div_credit,
          portfolio_history, today, quote, pc, call, div_seen, income

vars == <<cash, watchlist, portfolio, trade_history, last_div_credit,
          portfolio_history, today, quote, pc, call, div_seen, income>>

\* -------------------------------------------------------------- dictionaries
Get(d, k, default) == IF k \in DOMAIN d THEN d[k] ELSE default

Put(d, k, v) == [x \in DOMAIN d \cup {k} |-> IF x = k THEN v ELSE d[x]]

Empty == [x \in {} |-> 0]

RECURSIVE SumOver(_, _)
SumOver(S, f) ==
    IF S = {} THEN 0
    ELSE LET x == CHOOSE y \in S : TRUE IN f[x] + SumOver(S \ {x}, f)

\* ------------------------------------------------------------------- money
\* cents -> cash units
Units(cents) == cents * DivDays

\* round(x, 2) of a quote given in mills: the nearest cent
Round2(mills) ==
    IF mills >= 0 THEN (mills + 5) \div 10 ELSE -((5 - mills) \div 10)

\* round(total, 2) of an amount in cash units, in cents.  On an exact tie the
\* result depends on the binary value of the float: both neighbours.
RoundCents(u) ==
    LET lo == u \div DivDays
        r == u - lo * DivDays
    IN  IF 2 * r < DivDays THEN {lo}
        ELSE IF 2 * r > DivDays THEN {lo + 1}
        ELSE {lo, lo + 1}

\* ---------------------------------------------------------- quote provider
av_quote(symbol) ==
    IF quote[symbol] = None THEN None
    ELSE Some(Round2(quote[symbol][1]))

\* refresh_symbol: the watchlist after the call (ov is av_overview's result)
refresh_ok(symbol) == av_quote(symbol) # None

refresh_symbol(wl, symbol, ov) ==
    IF ~refresh_ok(symbol) THEN wl
    ELSE LET old == Get(wl, symbol, [price |-> 0, dividend_yield |-> 0])
             dy == IF ov # None THEN ov[1] ELSE old.dividend_yield
         IN  Put(wl, symbol, [price |-> av_quote(symbol)[1],
                              dividend_yield |-> dy])

\* refresh of the symbols of S that are not in the watchlist yet
RefreshMissing(wl, S, ovs) ==
    [s \in DOMAIN wl \cup {x \in S : refresh_ok(x)} |->
        IF s \in DOMAIN wl THEN wl[s] ELSE refresh_symbol(wl, s, ovs[s])[s]]

\* av_overview's result: None (call failed) or the yield
Overviews == {Some(y) : y \in Yields} \cup {None}

\* ------------------------------------------------------------ local frames
Idle == [op |-> "none", stock |-> "", amount |-> None, outcome |-> "none",
         shares |-> 0, price |-> 0]

Frame(op, symbol, amount, outcome, shares, price) ==
    [op |-> op, stock |-> symbol, amount |-> amount, outcome |-> outcome,
     shares |-> shares, price |-> price]

\* ------------------------------------------------------------------- state
Init ==
    /\ cash = Units(StartCash * 100)
    /\ watchlist = Empty
    /\ portfolio = Empty
    /\ trade_history = <<>>
    /\ last_div_credit = Empty
    /\ portfolio_history = <<>>
    /\ today = 1
    /\ quote \in {f \in [Symbols -> Quotes] : \A s \in Symbols : f[s] \in QuotesOf(s)}
    /\ pc = "ui"
    /\ call = Idle
    /\ div_seen = [date |-> 0, portfolio |-> Empty, watchlist |-> Empty,
                   runs |-> 0, credit |-> 0,
                   credits |-> [s \in Symbols |-> [date |-> 0, n |-> 0]]]
    /\ income = [deposits |-> 0, dividends |-> 0]

CanRun == pc = "ui" /\ Len(portfolio_history) < MaxCycles

\* ----------------------------------------------------------- environment
ProviderTick(s, q) ==
    /\ pc = "ui"
    /\ quote[s] # q
    /\ quote' = [quote EXCEPT ![s] = q]
    /\ UNCHANGED <<cash, watchlist, portfolio, trade_history, last_div_credit,
                   portfolio_history, today, pc, call, div_seen, income>>

NextDay ==
    /\ pc = "ui"
    /\ today < MaxDay
    /\ today' = today + 1
    /\ UNCHANGED <<cash, watchlist, portfolio, trade_history, last_div_credit,
                   portfolio_history, quote, pc, call, div_seen, income>>

\* ------------------------------------------------------------- ui handlers
Rerun ==
    /\ CanRun
    /\ pc' = "div"
    /\ call' = Idle
    /\ UNCHANGED <<cash, watchlist, portfolio, trade_history, last_div_credit,
                   portfolio_history, today, quote, div_seen, income>>

AddCashAmount_replaces(add_amt) == IF add_amt > 0 THEN Units(add_amt) ELSE cash

AddCashAmount(add_amt) == IF add_amt > 0 THEN cash + Units(add_amt) ELSE cash

AddCash(add_amt) ==
    /\ CanRun
    /\ cash' = AddCashAmount(add_amt)
    /\ call' = Frame("add_cash", "", Some(add_amt),
                     IF add_amt > 0 THEN "ok" ELSE "none", 0, 0)
    /\ income' = [income EXCEPT
                     !.deposits = @ + (IF add_amt > 0 THEN Units(add_amt) ELSE 0)]
    /\ pc' = "div"
    /\ UNCHANGED <<watchlist, portfolio, trade_history, last_div_credit,
                   portfolio_history, today, quote, div_seen>>

RefreshAll(ovs) ==
    /\ CanRun
    /\ watchlist' = [s \in DOMAIN watchlist |->
                        refresh_symbol(watchlist, s, ovs[s])[s]]
    /\ call' = Frame("refresh_all", "", None, "ok", 0, 0)
    /\ pc' = "div"
    /\ UNCHANGED <<cash, portfolio, trade_history, last_div_credit,
                   portfolio_history, today, quote, div_seen, income>>

AddToWatchlist(sym, ov) ==
    /\ CanRun
    /\ watchlist' = refresh_symbol(watchlist, sym, ov)
    /\ call' = Frame("add_to_watchlist", sym, None,
                     IF refresh_ok(sym) THEN "ok" ELSE "QuoteUnavailable", 0, 0)
    /\ pc' = "div"
    /\ UNCHANGED <<cash, portfolio, trade_history, last_div_credit,
                   portfolio_history, today, quote, div_seen, income>>

\* ------------------------------------------------------------------ trades
log_trade_overwrites(th, action, symbol, qty, price) ==
    <<[action |-> action, stock |-> symbol, quantity |-> qty,
       price |-> price, amount |-> qty * price]>>

log_trade(th, action, symbol, qty, price) ==
    Append(th, [action |-> action, stock |-> symbol, quantity |-> qty,
                price |-> price, amount |-> qty * price])

\* what a trade handler leaves behind: the session state and its frame
Outcome(c, wl, pf, th, fr) ==
    [cash |-> c, watchlist |-> wl, portfolio |-> pf, trade_history |-> th,
     frame |-> fr]

Return_position_zeroed(op, symbol, amount, why, wl) ==
    Outcome(cash, wl, Put(portfolio, symbol, 0), trade_history,
            Frame(op, symbol, amount, why, 0, 0))

\* an early return of buy_by_cash or sell_all
Return(op, symbol, amount, why, wl) ==
    Outcome(cash, wl, portfolio, trade_history,
            Frame(op, symbol, amount, why, 0, 0))

max_shares_rounded_up(cash_amount, price) ==
    IF cash_amount = None THEN cash \div Units(price)
    ELSE (Units(cash_amount[1]) + Units(price) - 1) \div Units(price)

max_shares(cash_amount, price) ==
    IF cash_amount = None THEN cash \div Units(price)
    ELSE Units(cash_amount[1]) \div Units(price)

insufficient_cash_unchecked(cost) == FALSE

insufficient_cash(cost) == cost > cash

\* (a watchlist record always carries a price, so "price is None" is never true)
invalid_buy_price(price) == price <= 0

position_after_buy_subtracts(symbol, n) == Get(portfolio, symbol, 0) - n

position_after_buy_overwrites(symbol, n) == n

position_after_buy(symbol, n) == Get(portfolio, symbol, 0) + n

buy_settle_debits_amount(symbol, cash_amount, wl, n, price) ==
    Outcome(cash - Units(cash_amount[1]),
            wl,
            Put(portfolio, symbol, position_after_buy(symbol, n)),
            log_trade(trade_history, "BUY", symbol, n, price),
            Frame("buy", symbol, cash_amount, "ok", n, price))

buy_settle(symbol, cash_amount, wl, n, price) ==
    Outcome(cash - n * Units(price),
            wl,
            Put(portfolio, symbol, position_after_buy(symbol, n)),
            log_trade(trade_history, "BUY", symbol, n, price),
            Frame("buy", symbol, cash_amount, "ok", n, price))

\* "Enter a positive cash amount.": the return before any state access
invalid_amount_return_after_refresh(symbol, cash_amount, ov) ==
    Return("buy", symbol, cash_amount, "InvalidAmount",
           refresh_symbol(watchlist, symbol, ov))

invalid_amount_return(symbol, cash_amount, ov) ==
    Return("buy", symbol, cash_amount, "InvalidAmount", watchlist)

buy_by_cash(symbol, cash_amount, ov) ==
    IF cash_amount = None
    THEN Return("buy", symbol, cash_amount, "TypeError", watchlist)
    ELSE IF cash_amount[1] <= 0
    THEN invalid_amount_return(symbol, cash_amount, ov)
    ELSE IF symbol \notin DOMAIN watchlist /\ ~refresh_ok(symbol)
    THEN Return("buy", symbol, cash_amount, "QuoteUnavailable", watchlist)
    ELSE
      LET wl == IF symbol \in DOMAIN watchlist THEN watchlist
                ELSE refresh_symbol(watchlist, symbol, ov)
          price == wl[symbol].price
      IN  IF invalid_buy_price(price)
          THEN Return("buy", symbol, cash_amount, "NoValidPrice", wl)
          ELSE
            LET n == max_shares(cash_amount, price) IN
            IF n <= 0
            THEN Return("buy", symbol, cash_amount, "NotEnoughForOneShare", wl)
            ELSE IF insufficient_cash(n * Units(price))
            THEN Return("buy", symbol, cash_amount, "InsufficientCash", wl)
            ELSE buy_settle(symbol, cash_amount, wl, n, price)

\* sell_all refuses a price that is None and no other: never true of a
\* watchlist record, whose price is the number refresh_symbol stored
invalid_sell_price(price) == FALSE

no_shares(shares) == shares <= 0

sell_settle_clears_portfolio(symbol, wl, shares, price) ==
    Outcome(cash + shares * Units(price),
            wl,
            Empty,
            log_trade(trade_history, "SELL", symbol, shares, price),
            Frame("sell", symbol, None, "ok", shares, price))

sell_settle_no_credit(symbol, wl, shares, price) ==
    Outcome(cash,
            wl,
            Put(portfolio, symbol, 0),
            log_trade(trade_history, "SELL", symbol, shares, price),
            Frame("sell", symbol, None, "ok", shares, price))

sell_settle(symbol, wl, shares, price) ==
    Outcome(cash + shares * Units(price),
            wl,
            Put(portfolio, symbol, 0),
            log_trade(trade_history, "SELL", symbol, shares, price),
            Frame("sell", symbol, None, "ok", shares, price))

sell_all(symbol, ov) ==
    LET shares == Get(portfolio, symbol, 0) IN
    IF no_shares(shares)
    THEN Return("sell", symbol, None, "NoShares", watchlist)
    ELSE IF symbol \notin DOMAIN watchlist /\ ~refresh_ok(symbol)
    THEN Return("sell", symbol, None, "QuoteUnavailable", watchlist)
    ELSE
      LET wl == IF symbol \in DOMAIN watchlist THEN watchlist
                ELSE refresh_symbol(watchlist, symbol, ov)
          price == wl[symbol].price
      IN  IF invalid_sell_price(price)
          THEN Return("sell", symbol, None, "NoValidPrice", wl)
          ELSE sell_settle(symbol, wl, shares, price)

Apply(r) ==
    /\ cash' = r.cash
    /\ watchlist' = r.watchlist
    /\ portfolio' = r.portfolio
    /\ trade_history' = r.trade_history
    /\ call' = r.frame
    \* an uncaught exception ends the script run before its tail
    /\ pc' = IF r.frame.outcome = "TypeError" THEN "ui" ELSE "div"
    /\ UNCHANGED <<last_div_credit, portfolio_history, today, quote, div_seen, income>>

Buy(sym, cash_amount, ov) ==
    /\ CanRun
    /\ Apply(buy_by_cash(sym, cash_amount, ov))

SellAll(sym, ov) ==
    /\ CanRun
    /\ Apply(sell_all(sym, ov))

\* ------------------------------------------------------- tail of every run
Held(pf) == {s \in DOMAIN pf : pf[s] > 0}

daily_dividend(info, shares) ==
    IF info.price # 0
       /\ info.dividend_yield # 0 /\ info.dividend_yield > 0
    THEN info.price * info.dividend_yield * shares
    ELSE 0

already_credited_unguarded(sym) == FALSE

already_credited(sym) == Get(last_div_credit, sym, 0) = today

credit_dividends_never_marks(ovs) ==
    LET due == {s \in Held(portfolio) : ~already_credited(s)}
        wl == RefreshMissing(watchlist, due, ovs)
        done == due \cap DOMAIN wl
    IN  [cash |-> cash + SumOver(done,
                        [s \in done |-> daily_dividend(wl[s], portfolio[s])]),
         watchlist |-> wl,
         last_div_credit |-> last_div_credit]

credit_dividends_once_per_day(ovs) ==
    LET due == {s \in Held(portfolio) : ~already_credited(s)}
        wl == RefreshMissing(watchlist, due, ovs)
        done == due \cap DOMAIN wl
    IN  [cash |-> cash + SumOver(done,
                        [s \in done |-> daily_dividend(wl[s], portfolio[s])]),
         watchlist |-> wl,
         last_div_credit |->
             [s \in DOMAIN last_div_credit \cup done |->
                 IF s \in done THEN today ELSE last_div_credit[s]]]

\* div_seen observes the runs of credit_dividends_once_per_day: the date,
\* holdings and watchlist the last run started from, whether it repeated the
\* run before it (runs = 2), what the first run of the streak credited, and
\* for every symbol the date of its last credit (lines 206-213 executed for
\* it) with the number of credits it got on that date.
\* income observes what Add Cash and the dividend credits added to cash.
SameAsSeen ==
    /\ div_seen.date = today
    /\ div_seen.portfolio = portfolio
    /\ div_seen.watchlist = watchlist

CreditDividends(ovs) ==
    /\ pc = "div"
    /\ LET r == credit_dividends_once_per_day(ovs) IN
         /\ cash' = r.cash
         /\ watchlist' = r.watchlist
         /\ last_div_credit' = r.last_div_credit
    /\ LET credited == {s \in Held(portfolio) :
                           ~already_credited(s) /\ s \in DOMAIN watchlist'}
           counted == [s \in Symbols |->
                         IF s \notin credited THEN div_seen.credits[s]
                         ELSE IF div_seen.credits[s].date = today
                         THEN [date |-> today, n |-> div_seen.credits[s].n + 1]
                         ELSE [date |-> today, n |-> 1]]
       IN  div_seen' = IF SameAsSeen
                       THEN [div_seen EXCEPT !.runs = 2, !.credits = counted]
                       ELSE [date |-> today, portfolio |-> portfolio,
                             watchlist |-> watchlist, runs |-> 1,
                             credit |-> cash' - cash, credits |-> counted]
    /\ income' = [income EXCEPT !.dividends = @ + (cash' - cash)]
    /\ pc' = "val"
    /\ UNCHANGED <<portfolio, trade_history, portfolio_history, today, quote,
                   call>>

total_portfolio_value_without_cash(ovs) ==
    LET held == Held(portfolio)
        wl == RefreshMissing(watchlist, held, ovs)
        priced == held \cap DOMAIN wl
    IN  [total |-> SumOver(priced,
                        [s \in priced |-> portfolio[s] * Units(wl[s].price)]),
         watchlist |-> wl]

total_portfolio_value(ovs) ==
    LET held == Held(portfolio)
        wl == RefreshMissing(watchlist, held, ovs)
        priced == held \cap DOMAIN wl
    IN  [total |-> cash + SumOver(priced,
                        [s \in priced |-> portfolio[s] * Units(wl[s].price)]),
         watchlist |-> wl]

Sample_keeps_last_only(ovs) ==
    /\ pc = "val"
    /\ LET r == total_portfolio_value(ovs) IN
         /\ watchlist' = r.watchlist
         /\ \E v \in RoundCents(r.total) : portfolio_history' = <<v>>
    /\ pc' = "ui"
    /\ call' = Idle
    /\ UNCHANGED <<cash, portfolio, trade_history, last_div_credit, today,
                   quote, div_seen, income>>

Sample(ovs) ==
    /\ pc = "val"
    /\ LET r == total_portfolio_value(ovs) IN
         /\ watchlist' = r.watchlist
         /\ \E v \in RoundCents(r.total) :
               portfolio_history' = Append(portfolio_history, v)
    /\ pc' = "ui"
    /\ call' = Idle
    /\ UNCHANGED <<cash, portfolio, trade_history, last_div_credit, today,
                   quote, div_seen, income>>

\* av_overview is called by refresh_symbol only: the overview results a
\* handler consumes, for the symbols it refreshes
OvsFor(S) == [S -> Overviews]

OvFor(sym) == IF sym \in DOMAIN watchlist THEN {None} ELSE Overviews

HeldUnlisted == OvsFor(Held(portfolio) \ DOMAIN watchlist)

Next ==
    \/ \E s \in Symbols : \E q \in QuotesOf(s) : ProviderTick(s, q)
    \/ NextDay
    \/ Rerun
    \/ \E a \in AddAmounts : AddCash(a)
    \/ \E ovs \in OvsFor(DOMAIN watchlist) : RefreshAll(ovs)
    \/ \E s \in Symbols, ov \in Overviews : AddToWatchlist(s, ov)
    \/ \E s \in Symbols, a \in SpendInputs : \E ov \in OvFor(s) :
          Buy(s, a, ov)
    \/ \E s \in Symbols : \E ov \in OvFor(s) : SellAll(s, ov)
    \/ \E ovs \in HeldUnlisted : CreditDividends(ovs)
    \/ \E ovs \in HeldUnlisted : Sample(ovs)

Spec == Init /\ [][Next]_vars
\* ==================================================================== claims
IsTrade(fr) == fr.op \in {"buy", "sell"}

Settled(fr) == IsTrade(fr) /\ fr.outcome = "ok"

\* a step of buy_by_cash or sell_all
TradeStep == pc = "ui" /\ IsTrade(call') /\ (pc' = "div" \/ call' # call)

Min(a, b) == IF a <= b THEN a ELSE b

Position(pf, s) == Get(pf, s, 0)

\* C1: cash is never negative, whatever prices the provider returns.
\* (sell_all credits shares * price for a zero or negative watchlist price,
\* and the dividend credit price * yield / 252 * shares is negative for a
\* negative price.)
C1_CashNonNegative == cash >= 0

\* C2: every position is a whole number of shares >= 0.
C2_PositionsNonNegative ==
    \A s \in DOMAIN portfolio : portfolio[s] \in Nat

\* a symbol bought, sold out and bought again
C2_Witness ==
    /\ Len(trade_history) = 3
    /\ trade_history[2].action = "SELL"
    /\ Settled(call) /\ call.op = "buy"
    /\ portfolio[call.stock] > 0
    /\ trade_history[2].stock = call.stock

\* C3: a buy or sell that executes no trade (any early return, that is any
\* call that logs nothing) leaves cash, portfolio and trade_history as they
\* were.
C3_FailedTradeAtomic ==
    [][(TradeStep /\ (~Settled(call') \/ trade_history' = trade_history))
         => /\ cash' = cash
            /\ portfolio' = portfolio
            /\ trade_history' = trade_history]_vars

\* a buy refused for insufficient cash while a position is held
C3_Witness ==
    /\ call.op = "buy" /\ call.outcome = "InsufficientCash"
    /\ Held(portfolio) # {}
    /\ trade_history # <<>>

\* C4: every logged trade has quantity > 0 and price > 0.
C4_TradesPositive ==
    \A i \in 1..Len(trade_history) :
        trade_history[i].quantity > 0 /\ trade_history[i].price > 0

\* C5: replaying trade_history from no positions (BUY adds the quantity,
\* SELL subtracts it) gives the live portfolio, 0 shares counting as absent.
RECURSIVE Replay(_)
Replay(th) ==
    IF th = <<>> THEN [s \in Symbols |-> 0]
    ELSE LET before == Replay(SubSeq(th, 1, Len(th) - 1))
             t == th[Len(th)]
         IN  [before EXCEPT ![t.stock] =
                 IF t.action = "BUY" THEN @ + t.quantity ELSE @ - t.quantity]

C5_ReplayConsistent ==
    \A s \in Symbols : Replay(trade_history)[s] = Position(portfolio, s)

\* two buys of one symbol on top of each other, then all of it sold
C5_Witness ==
    /\ Len(trade_history) = 3
    /\ trade_history[1].action = "BUY" /\ trade_history[2].action = "BUY"
    /\ trade_history[3].action = "SELL"
    /\ trade_history[1].stock = trade_history[2].stock
    /\ trade_history[3].stock = trade_history[2].stock
    /\ trade_history[3].quantity =
          trade_history[1].quantity + trade_history[2].quantity
    /\ portfolio[trade_history[3].stock] = 0

\* a buy that spends a positive amount at a known positive price
SpendStep ==
    /\ TradeStep /\ call'.op = "buy"
    /\ call'.amount # None /\ call'.amount[1] > 0
    /\ call'.stock \in DOMAIN watchlist'
    /\ watchlist'[call'.stock].price > 0

Acquired ==
    Position(portfolio', call'.stock) - Position(portfolio, call'.stock)

SpendPrice == Units(watchlist'[call'.stock].price)

\* C6 as stated: the buy acquires floor(min(amount, cash) / p) shares.
C6_SharesFromMinOfAmountAndCash ==
    [][SpendStep =>
         Acquired = Min(Units(call'.amount[1]), cash) \div SpendPrice]_vars

\* C6 amended: the buy sizes the order from the amount alone, n =
\* floor(amount / p); it acquires n shares when n >= 1 and n * p <= cash, and
\* otherwise acquires none (an amount the cash cannot cover is refused).
C6_SharesFromAmountOrRefused ==
    [][SpendStep =>
         LET n == Units(call'.amount[1]) \div SpendPrice IN
           Acquired = IF n >= 1 /\ n * SpendPrice <= cash THEN n ELSE 0]_vars

\* a buy refused although the cash would have paid for at least one share
C6_Witness ==
    /\ call.op = "buy" /\ call.outcome = "InsufficientCash"
    /\ call.stock \in DOMAIN watchlist
    /\ watchlist[call.stock].price > 0
    /\ cash >= Units(watchlist[call.stock].price)

\* C7: a successful buy acquires at most floor(amount / p) whole shares, and
\* their cost is at most the amount and at most the cash held before.
C7_FloorDivisionLaw ==
    [][(SpendStep /\ Settled(call')) =>
         /\ Acquired \in Nat /\ Acquired >= 1
         /\ Acquired <= Units(call'.amount[1]) \div SpendPrice
         /\ Acquired * SpendPrice <= Units(call'.amount[1])
         /\ Acquired * SpendPrice <= cash
         /\ cash - cash' = Acquired * SpendPrice]_vars

\* a buy of 2 shares at $200.00 with $450.00 to spend
C7_Witness ==
    /\ Settled(call) /\ call.op = "buy"
    /\ call.amount = Some(45000) /\ call.price = 20000 /\ call.shares = 2

\* C8: a run of credit_dividends_once_per_day on the date of the run before
\* it, with the holdings and the watchlist (prices, yields) that run started
\* from, changes neither cash nor last_div_credit.
C8_DividendIdempotent ==
    [][(pc = "div" /\ SameAsSeen)
         => (cash' = cash /\ last_div_credit' = last_div_credit)]_vars

\* a second run of the same day after a first run that credited a dividend
C8_Witness ==
    /\ pc = "val"
    /\ div_seen.runs = 2
    /\ div_seen.credit > 0

\* C9: a trade settles at the provider's price at the time of the trade,
\* never at a price the watchlist cached before the provider's price changed.
\* Stated for the state a trade leaves (the provider's quote cannot change
\* during the handler) and for a provider that has a price to give.
\* (buy_by_cash and sell_all settle at the watchlist price and ask the
\* provider only for a symbol the watchlist does not hold.)
C9_SettlesAtProviderPrice ==
    (pc = "div" /\ Settled(call) /\ quote[call.stock] # None)
        => call.price = Round2(quote[call.stock][1])

\* C10: the trade log is append-only; a successful buy or sell appends one
\* entry with that trade's action, symbol, quantity and price, and every
\* other step appends none.
IsPrefix(a, b) == Len(a) <= Len(b) /\ SubSeq(b, 1, Len(a)) = a

C10_LogAppendOnly ==
    [][/\ IsPrefix(trade_history, trade_history')
       /\ IF TradeStep /\ Settled(call')
          THEN /\ Len(trade_history') = Len(trade_history) + 1
               /\ LET t == trade_history'[Len(trade_history')] IN
                    /\ t.action = (IF call'.op = "buy" THEN "BUY" ELSE "SELL")
                    /\ t.stock = call'.stock
                    /\ t.quantity = call'.shares
                    /\ t.price = call'.price
                    /\ t.quantity =
                         IF call'.op = "buy" THEN Acquired
                         ELSE Position(portfolio, call'.stock)
          ELSE trade_history' = trade_history]_vars

\* a trade appended to a log that already held two
C10_Witness ==
    /\ Settled(call)
    /\ Len(trade_history) = 3

OthersUnchanged(s) ==
    \A x \in Symbols \ {s} : Position(portfolio', x) = Position(portfolio, x)

LastTrade(th) == th[Len(th)]

\* C11: a successful sell_all(s) of n > 0 shares at the settlement price p
\* (the watchlist price of s) adds exactly n * p to cash, leaves s with no
\* holding, leaves every other position as it was and logs one SELL trade
\* of n shares at p.
C11_SellAllEffect ==
    [][(TradeStep /\ call'.op = "sell" /\ Settled(call')) =>
         LET s == call'.stock
             n == Position(portfolio, s)
             p == watchlist'[s].price
         IN  /\ n > 0
             /\ cash' = cash + n * Units(p)
             /\ Position(portfolio', s) = 0
             /\ s \notin Held(portfolio')
             /\ OthersUnchanged(s)
             /\ trade_history' = Append(trade_history,
                    [action |-> "SELL", stock |-> s, quantity |-> n,
                     price |-> p, amount |-> n * p])]_vars

\* one symbol sold out while the other is still held
C11_Witness ==
    /\ Settled(call) /\ call.op = "sell"
    /\ portfolio[call.stock] = 0
    /\ Held(portfolio) # {}
    /\ LastTrade(trade_history).action = "SELL"

\* C12: a successful buy_by_cash(s, amount) of k shares at price p takes
\* exactly k * p from cash, adds exactly k to the position of s (creating
\* it on the first buy), leaves every other position as it was and logs one
\* BUY trade of k shares at p.
C12_BuyEffect ==
    [][(TradeStep /\ call'.op = "buy" /\ Settled(call')) =>
         LET s == call'.stock
             k == call'.shares
             p == watchlist'[s].price
         IN  /\ k >= 1 /\ p > 0
             /\ cash' = cash - k * Units(p)
             /\ s \in DOMAIN portfolio'
             /\ portfolio'[s] = Position(portfolio, s) + k
             /\ OthersUnchanged(s)
             /\ trade_history' = Append(trade_history,
                    [action |-> "BUY", stock |-> s, quantity |-> k,
                     price |-> p, amount |-> k * p])]_vars

\* the first buy of a symbol, with $450.00 at $200.00 (50.00 left over),
\* while the other symbol is held
C12_Witness ==
    /\ Settled(call) /\ call.op = "buy"
    /\ call.amount = Some(45000) /\ call.price = 20000
    /\ portfolio[call.stock] = call.shares
    /\ Held(portfolio) \ {call.stock} # {}

\* C13: Add Cash with an amount > 0 adds exactly the amount to cash, with an
\* amount <= 0 it changes nothing; either way the handler leaves portfolio,
\* trade_history, watchlist and last_div_credit as they were.
C13_AddCashEffect ==
    [][(pc = "ui" /\ call'.op = "add_cash") =>
         /\ cash' = IF call'.amount[1] > 0
                    THEN cash + Units(call'.amount[1]) ELSE cash
         /\ portfolio' = portfolio
         /\ trade_history' = trade_history
         /\ watchlist' = watchlist
         /\ last_div_credit' = last_div_credit]_vars

\* $1000.00 added while a position is held and a dividend date is recorded
C13_Witness ==
    /\ pc = "div"
    /\ call.op = "add_cash" /\ call.amount = Some(100000)
    /\ income.deposits = Units(100000)
    /\ Held(portfolio) # {}
    /\ DOMAIN last_div_credit # {}

\* C14: a buy with no cash amount (cash_amount = None, BuyMax) completes
\* without raising and acquires floor(cash / price) shares.
\* (line 152 compares cash_amount <= 0 before line 162 tests it for None:
\* the comparison of None with 0 raises TypeError.)
C14_BuyMaxCompletes ==
    (call.op = "buy" /\ call.amount = None) => call.outcome # "TypeError"

\* C15: a buy with an amount <= 0 is rejected before any state access: the
\* whole session state, the watchlist included, stays as it was, also for a
\* symbol that is not in the watchlist and that the provider has a quote for.
C15_NonPositiveBuyRejected ==
    [][(TradeStep /\ call'.op = "buy" /\ call'.amount # None
          /\ call'.amount[1] <= 0) =>
         /\ ~Settled(call')
         /\ UNCHANGED <<cash, watchlist, portfolio, trade_history,
                        last_div_credit, portfolio_history, today, quote>>]_vars

\* an amount of 0 refused for an unlisted symbol the provider would quote
C15_Witness ==
    /\ call.op = "buy" /\ call.outcome = "InvalidAmount"
    /\ call.amount = Some(0)
    /\ call.stock \notin DOMAIN watchlist
    /\ quote[call.stock] # None

\* the step that computes total_portfolio_value and appends the sample
SampleStep == pc = "val" /\ pc' = "ui"

\* cash plus shares * price over the symbols held (shares > 0) whose price
\* is known once the computation has looked it up, in cash units
MarkToMarket(c, pf, wl) ==
    LET priced == {s \in DOMAIN pf : pf[s] > 0 /\ s \in DOMAIN wl}
    IN  c + SumOver(priced, [s \in priced |-> pf[s] * Units(wl[s].price)])

LastSample(h) == h[Len(h)]

\* C16 as stated: the sample equals cash plus the sum of shares * price.
C16_SampleEqualsTotal ==
    [][SampleStep =>
         Units(LastSample(portfolio_history'))
             = MarkToMarket(cash, portfolio, watchlist')]_vars

\* C16 amended: the sample is cash plus the sum of shares * price over the
\* held symbols with a known price, rounded to 2 decimals (it is a whole
\* number of cents at most half a cent from the exact total), and the
\* computation changes neither cash nor portfolio.
C16_SampleIsRoundedTotal ==
    [][SampleStep =>
         LET v == Units(LastSample(portfolio_history'))
             exact == MarkToMarket(cash, portfolio, watchlist')
         IN  /\ Len(portfolio_history') = Len(portfolio_history) + 1
             /\ 2 * (v - exact) <= DivDays
             /\ 2 * (exact - v) <= DivDays
             /\ cash' = cash
             /\ portfolio' = portfolio]_vars

\* a sample taken with a position held and a cash balance that is not a
\* whole number of cents (a dividend was credited)
C16_Witness ==
    /\ pc = "ui" /\ call = Idle
    /\ portfolio_history # <<>>
    /\ Held(portfolio) # {}
    /\ cash % DivDays # 0
    /\ Units(LastSample(portfolio_history))
         # MarkToMarket(cash, portfolio, watchlist)

\* C17: on one calendar date a symbol gets at most one dividend credit,
\* through any interleaving of buys, sells, refreshes and script runs: once
\* last_div_credit[s] is today, shares of s bought later that day (also after
\* a sell-all and a new buy) earn nothing until the date changes.
C17_OneCreditPerDay ==
    /\ \A s \in Symbols : div_seen.credits[s].n <= 1
    /\ \A s \in Symbols :
          div_seen.credits[s].n = 1 =>
              Get(last_div_credit, s, 0) = div_seen.credits[s].date

\* a symbol bought, credited, sold out and bought again, all on one date,
\* after the dividend step of the run of the second buy
C17_Witness ==
    /\ pc = "val"
    /\ Len(trade_history) = 3
    /\ trade_history[1].action = "BUY"
    /\ trade_history[2].action = "SELL"
    /\ trade_history[3].action = "BUY"
    /\ trade_history[1].stock = trade_history[3].stock
    /\ trade_history[2].stock = trade_history[3].stock
    /\ today = 1
    /\ income.dividends > 0
    /\ div_seen.credits[trade_history[3].stock] = [date |-> 1, n |-> 1]
    /\ watchlist[trade_history[3].stock].dividend_yield > 0

\* the sum of quantity * price over the entries of the log with this action
RECURSIVE TradedValue(_, _)
TradedValue(th, action) ==
    IF th = <<>> THEN 0
    ELSE TradedValue(SubSeq(th, 1, Len(th) - 1), action)
         + (IF LastTrade(th).action = action
            THEN LastTrade(th).quantity * LastTrade(th).price ELSE 0)

\* C18: cash is the starting cash (10000) plus the positive Add Cash
\* deposits plus the dividend credits, minus quantity * price over the BUY
\* entries of trade_history, plus quantity * price over its SELL entries; no
\* other operation changes cash.
C18_CashConservation ==
    cash = Units(StartCash * 100) + income.deposits + income.dividends
           - Units(TradedValue(trade_history, "BUY"))
           + Units(TradedValue(trade_history, "SELL"))

\* a deposit, a dividend credit, a buy and a sell have all happened
C18_Witness ==
    /\ income.deposits > 0
    /\ income.dividends > 0
    /\ TradedValue(trade_history, "BUY") > 0
    /\ TradedValue(trade_history, "SELL") > 0

\* a handler of a user action ran: it left its frame behind
UserActionStep == call' # call /\ call'.op # "none"

\* C19: in every script run the user action (at most one) comes first, then
\* the dividend accrual, then exactly one valuation sample is appended: the
\* steps follow ui -> div -> val -> ui, session state is changed by a user
\* action only at the start of a run and by the dividend accrual only after
\* it, the sample is appended by the last step and by no other, it is the
\* rounded total of the state that run's trade and dividend credit left, and
\* portfolio_history only ever grows, by that one entry.  A run is what the
\* page can start: its Buy button passes a number, never None (C14).
C19_RenderCycleOrder ==
    [][/\ pc' # pc => <<pc, pc'>> \in
                        {<<"ui", "div">>, <<"div", "val">>, <<"val", "ui">>}
       /\ UserActionStep => pc = "ui"
       /\ (UserActionStep /\ ~(call'.op = "buy" /\ call'.amount = None))
             => pc' = "div"
       /\ (trade_history' # trade_history \/ portfolio' # portfolio)
             => (pc = "ui" /\ pc' = "div" /\ UserActionStep)
       /\ last_div_credit' # last_div_credit => (pc = "div" /\ pc' = "val")
       /\ cash' # cash => (pc = "ui" /\ pc' = "div") \/ (pc = "div" /\ pc' = "val")
       /\ IsPrefix(portfolio_history, portfolio_history')
       /\ IF SampleStep
          THEN /\ Len(portfolio_history') = Len(portfolio_history) + 1
               /\ LET v == Units(LastSample(portfolio_history'))
                      exact == MarkToMarket(cash', portfolio', watchlist')
                  IN  2 * (v - exact) <= DivDays /\ 2 * (exact - v) <= DivDays
          ELSE portfolio_history' = portfolio_history]_vars

\* the second run's sample, after a buy in that run and a dividend credit
\* in it: it differs from the first run's sample by the credit
C19_Witness ==
    /\ pc = "ui" /\ call = Idle
    /\ Len(portfolio_history) = 2
    /\ Len(trade_history) = 1
    /\ div_seen.runs = 1 /\ div_seen.credit > 0
    /\ div_seen.portfolio = portfolio
    /\ 2 * (Units(portfolio_history[2]) - Units(portfolio_history[1])
            - div_seen.credit) <= 2 * DivDays
    /\ portfolio_history[2] > portfolio_history[1]

=============================================================================
